---- MODULE Spec2Model ----
(***************************************************************************)
(* The change-detection-gated sync pipeline of the SharePoint-to-Databricks *)
(* backend: run_sync (app/core/pipeline.py) sequencing should_process_file  *)
(* (app/services/update_checker.py), parse_excel_to_delta                   *)
(* (app/services/excel_parser.py) and run_data_quality_checks               *)
(* (app/services/data_quality.py).                                          *)
(*                                                                         *)
(* Every Lakebase.query call is one step.  A call either executes its       *)
(* statement and returns the rows, or raises; a call that raises leaves the *)
(* tables as they were.  The documents table is written by the ingestion    *)
(* pipeline, which runs independently of run_sync (action Ingest); a        *)
(* document's content is what the materializer reads out of it at the time  *)
(* of the read (SheetContents), and the target table's column list is what  *)
(* information_schema returns at the time of the audit (TargetSchemas).     *)
(***************************************************************************)
EXTENDS Integers, Sequences, FiniteSets, TLC

VARIABLES
    documents,  \* last_modified_timestamp of each documents row named config.file_name
    target,     \* the rows of the target table, in insertion order
    run,        \* per caller: the locals and the result of its run_sync call
    configs,    \* the sync_configs table of the configuration store
    http,       \* the last request served by the API and its response
    warehouse,  \* the WarehouseManager singleton and the threads calling it
    lakebase    \* the Lakebase singleton's connection and the threads querying

\* the configuration store and the API in front of it
store == <<configs, http>>

\* the state of the services around the pipeline
service == <<store, warehouse, lakebase>>

vars == <<documents, target, run, service>>

-----------------------------------------------------------------------------
(* Bounds of the model *)

\* last_modified_timestamp values are 1..MaxTs
MaxTs == 2
\* a parsed data frame has at most MaxRows rows
MaxRows == 2
\* the documents table holds at most MaxVersions rows with the tracked name
MaxVersions == 2

-----------------------------------------------------------------------------
(* Values *)

\* Python None
None == <<>>
Some(v) == <<v>>
\* str(v) of a timestamp
Str(v) == <<"str", v>>

\* an empty B1 cell reads as NaN; pd.isna(NaN) makes the insert write NULL
NaN == "NaN"
SqlNull == "NULL"
Suppliers == {"A", "B", NaN}
Timestamps == 1..MaxTs

\* the message of the exception a failing query raises
QueryError == "query failed"
\* what the two pd.read_excel calls get out of a document's content: the B1
\* cell and the number of data rows under the header; readable is FALSE when
\* pd.read_excel or the B1 lookup raises
SheetContents == [supplier_id : Suppliers, nrows : 0..MaxRows, readable : BOOLEAN]

\* the columns information_schema can list for the target table
TargetSchemas == { {"Date", "SKU", "Qty", "supplier_id", "last_modified"},
                   {"Date", "SKU", "supplier_id", "last_modified"},
                   {"Date", "SKU", "Qty", "vendor", "last_modified"} }

Runners == {"r1", "r2"}

-----------------------------------------------------------------------------
(* The state of one run_sync call *)

\* the locals of a call that has not started
InitRun == [pc |-> "idle",
            result |-> None,
            gate |-> None,
            parse_result |-> None,
            dq_result |-> None,
            file_last_updated |-> 0,
            last_modified |-> 0,
            supplier_id |-> NaN,
            data_df |-> 0,
            inserted |-> 0,
            row_count |-> 0,
            actual_columns |-> None,
            col |-> 0,
            null_counts |-> <<>>,
            quality_checks |-> <<>>,
            raised |-> None,
            pre_target |-> <<>>,
            deletes |-> 0,
            insert_failures |-> 0,
            log |-> <<>>]

RunResult(status, gate, parse, dq) ==
    [status |-> status, gate |-> gate, parse |-> parse, dq |-> dq]

Return(r, result) == [r EXCEPT !.pc = "returned", !.result = result]

\* bookkeeping: the calls made so far, each with how it ended ("rows": it
\* returned rows, "empty": it returned none, "raise": it raised)
Log(r, call, outcome) == [r EXCEPT !.log = Append(@, <<call, outcome>>)]

-----------------------------------------------------------------------------
(* should_process_file *)

\* SELECT last_modified FROM target ORDER BY last_modified DESC LIMIT 1,
\* then table_rows[0][0] if table_rows else None
TableLastUpdated(tbl) ==
    IF tbl = <<>> THEN None
    ELSE Some(CHOOSE m \in {tbl[i].last_modified : i \in 1..Len(tbl)} :
                \A i \in 1..Len(tbl) : tbl[i].last_modified <= m)

\* variant: a missing file is treated like a missing table
GateFileNotFoundProcess ==
    [should_process |-> TRUE,
     reason |-> <<"File {file_name} not found in {docs_table_fq}">>,
     file_last_updated |-> None,
     table_last_updated |-> None]

GateFileNotFound ==
    [should_process |-> FALSE,
     reason |-> <<"File {file_name} not found in {docs_table_fq}">>,
     file_last_updated |-> None,
     table_last_updated |-> None]

\* variant: a failed documents lookup is treated like a failed target read
GateDocumentsErrorProcess(e) ==
    [should_process |-> TRUE,
     reason |-> <<"Error reading documents table: ", e>>,
     file_last_updated |-> None,
     table_last_updated |-> None]

GateDocumentsError(e) ==
    [should_process |-> FALSE,
     reason |-> <<"Error reading documents table: ", e>>,
     file_last_updated |-> None,
     table_last_updated |-> None]

\* variant: a failed target read is treated like a failed documents lookup
GateInitialLoadSkip(file_last_updated) ==
    [should_process |-> FALSE,
     reason |-> <<"Target table does not exist; initial load required.">>,
     file_last_updated |-> Str(file_last_updated),
     table_last_updated |-> None]

GateInitialLoad(file_last_updated) ==
    [should_process |-> TRUE,
     reason |-> <<"Target table does not exist; initial load required.">>,
     file_last_updated |-> Str(file_last_updated),
     table_last_updated |-> None]

\* variant: >= in place of >
ShouldProcessNotStrict(file_last_updated, table_last_updated) ==
    table_last_updated = None \/ file_last_updated >= table_last_updated[1]

ShouldProcess(file_last_updated, table_last_updated) ==
    table_last_updated = None \/ file_last_updated > table_last_updated[1]

GateCompared(file_last_updated, table_last_updated) ==
    [should_process |-> ShouldProcess(file_last_updated, table_last_updated),
     reason |-> IF ShouldProcess(file_last_updated, table_last_updated)
                THEN <<"File has newer changes than table.">>
                ELSE <<"No new updates detected; table is up to date.">>,
     file_last_updated |-> Str(file_last_updated),
     table_last_updated |-> IF table_last_updated # None
                            THEN Str(table_last_updated[1]) ELSE None]

-----------------------------------------------------------------------------
(* run_sync: what it does with each stage's result *)

\* variant: the gate's decision is read inverted
RunSyncAfterGateInverted(r, gate) ==
    IF gate.should_process
    THEN Return([r EXCEPT !.gate = gate], RunResult("skipped", gate, None, None))
    ELSE [r EXCEPT !.gate = gate, !.pc = "parse_fetch"]

RunSyncAfterGate(r, gate) ==
    IF ~gate.should_process
    THEN Return([r EXCEPT !.gate = gate], RunResult("skipped", gate, None, None))
    ELSE [r EXCEPT !.gate = gate, !.pc = "parse_fetch"]

\* variant: an 'error' result does not carry the materializer's result
RunSyncAfterParseDropped(r, parse_result) ==
    IF parse_result.status # "success"
    THEN Return([r EXCEPT !.parse_result = parse_result],
                RunResult("error", r.gate, None, None))
    ELSE [r EXCEPT !.parse_result = parse_result, !.pc = "dq_count"]

RunSyncAfterParse(r, parse_result) ==
    IF parse_result.status # "success"
    THEN Return([r EXCEPT !.parse_result = parse_result],
                RunResult("error", r.gate, parse_result, None))
    ELSE [r EXCEPT !.parse_result = parse_result, !.pc = "dq_count"]

\* variant: the two final statuses swapped
RunSyncAfterDqSwapped(r, dq_result) ==
    Return([r EXCEPT !.dq_result = dq_result],
           RunResult(IF dq_result.checks_passed THEN "dq_failed" ELSE "success",
                     r.gate, r.parse_result, dq_result))

RunSyncAfterDq(r, dq_result) ==
    Return([r EXCEPT !.dq_result = dq_result],
           RunResult(IF dq_result.checks_passed THEN "success" ELSE "dq_failed",
                     r.gate, r.parse_result, dq_result))

-----------------------------------------------------------------------------
(* parse_excel_to_delta *)

\* the header row of the sheet (row index 2): the data columns of the frame
data_columns == <<"Date", "SKU", "Qty">>

ParseFileNotFound ==
    [status |-> "error",
     message |-> <<"Excel file {file_name} not found in {docs_table_fq}">>,
     rows_processed |-> 0]

ParseReadError(e) ==
    [status |-> "error",
     message |-> <<"Error reading Excel file: ", e>>,
     rows_processed |-> 0]

ParseError(e) ==
    [status |-> "error",
     message |-> <<"Error parsing Excel: ", e>>,
     rows_processed |-> 0]

ParseEmpty(supplier_id) ==
    [status |-> "success",
     message |-> <<"Empty table (cleared existing data)">>,
     rows_processed |-> 0,
     supplier_id |-> Str(supplier_id)]

ParseSuccess(data_df, supplier_id) ==
    [status |-> "success",
     message |-> <<"Table updated successfully">>,
     rows_processed |-> data_df,
     supplier_id |-> Str(supplier_id),
     columns |-> data_columns \o <<"supplier_id", "last_modified">>]

\* the value an INSERT writes for a cell: NULL for NaN, else the quoted value
SqlValue(val) == IF val = NaN THEN SqlNull ELSE val

\* a frame row widened with the two synthetic columns, as the INSERT stores it
TargetTableRow(supplier_id, last_modified) ==
    [supplier_id |-> SqlValue(supplier_id), last_modified |-> last_modified]

\* variant: a sheet that cannot be read is taken for an empty frame
ParseReadSwallows(r, last_modified, sheet) ==
    [Log(r, "read_excel", IF sheet.readable THEN "rows" ELSE "raise") EXCEPT
        !.pc = "parse_delete",
        !.last_modified = last_modified,
        !.supplier_id = sheet.supplier_id,
        !.data_df = IF sheet.readable THEN sheet.nrows ELSE 0]

\* lines 47-53: both pd.read_excel calls and the B1 lookup, in one try with
\* the DELETE that follows them
ParseRead(r, last_modified, sheet) ==
    IF sheet.readable
    THEN [Log(r, "read_excel", "rows") EXCEPT !.pc = "parse_delete",
                                              !.last_modified = last_modified,
                                              !.supplier_id = sheet.supplier_id,
                                              !.data_df = sheet.nrows]
    ELSE RunSyncAfterParse(Log(r, "read_excel", "raise"),
                           ParseError("read_excel failed"))

\* variant: the DELETE removes nothing
DeleteNothing(tbl) == tbl

\* DELETE FROM target
DeleteFrom(tbl) == <<>>

\* INSERT INTO target VALUES (...)
InsertInto(tbl, row) == Append(tbl, row)

-----------------------------------------------------------------------------
(* run_data_quality_checks *)

required_columns == <<"Date", "SKU", "Qty", "supplier_id">>

UnboundLocalError == "UnboundLocalError: actual_columns"

\* variant: a failed row count does not fail the audit
DqTableErrorPassed(e) ==
    [status |-> "error",
     message |-> <<"Table not found: ", e>>,
     checks_passed |-> TRUE]

DqTableError(e) ==
    [status |-> "error",
     message |-> <<"Table not found: ", e>>,
     checks_passed |-> FALSE]

\* variant: an empty table passes the row-count check
CheckRowCountNonNegative(row_count) ==
    [check |-> "row_count",
     passed |-> row_count >= 0,
     value |-> row_count,
     message |-> <<"Table has {row_count} rows">>]

CheckRowCount(row_count) ==
    [check |-> "row_count",
     passed |-> row_count > 0,
     value |-> row_count,
     message |-> <<"Table has {row_count} rows">>]

MissingColumns(actual_columns) ==
    SelectSeq(required_columns, LAMBDA c : c \notin actual_columns)

\* variant: a column that is not required fails the check
CheckRequiredColumnsExact(actual_columns) ==
    [check |-> "required_columns",
     passed |-> actual_columns = {required_columns[i] : i \in 1..Len(required_columns)},
     value |-> actual_columns,
     message |-> IF MissingColumns(actual_columns) # <<>>
                 THEN <<"Missing columns: ", MissingColumns(actual_columns)>>
                 ELSE <<"All required columns present">>]

CheckRequiredColumns(actual_columns) ==
    [check |-> "required_columns",
     passed |-> Len(MissingColumns(actual_columns)) = 0,
     value |-> actual_columns,
     message |-> IF MissingColumns(actual_columns) # <<>>
                 THEN <<"Missing columns: ", MissingColumns(actual_columns)>>
                 ELSE <<"All required columns present">>]

CheckRequiredColumnsError(e) ==
    [check |-> "required_columns",
     passed |-> FALSE,
     value |-> {},
     message |-> <<"Error checking columns: ", e>>]

\* SELECT COUNT(*) FROM target WHERE "col" IS NULL; the cells of the data
\* columns of the modelled frames are never empty
NullCount(tbl, c) ==
    Cardinality({i \in 1..Len(tbl) : c = "supplier_id" /\ tbl[i].supplier_id = SqlNull})

CheckNullValues(null_counts) ==
    [check |-> "null_values",
     passed |-> ~(\E i \in 1..Len(null_counts) : null_counts[i][2] > 0),
     value |-> null_counts,
     message |-> <<"Null counts: {null_counts}">>]

CheckNullValuesError(e) ==
    [check |-> "null_values",
     passed |-> FALSE,
     value |-> <<>>,
     message |-> <<"Error checking nulls: ", e>>]

\* variant: COUNT(DISTINCT ...) counts NULL as a value
DistinctSuppliersWithNull(tbl) ==
    Cardinality({tbl[i].supplier_id : i \in 1..Len(tbl)})

\* SELECT COUNT(DISTINCT supplier_id) FROM target (NULLs are not counted)
DistinctSuppliers(tbl) ==
    Cardinality({tbl[i].supplier_id : i \in 1..Len(tbl)} \ {SqlNull})

CheckSupplierConsistency(distinct_suppliers) ==
    [check |-> "supplier_consistency",
     passed |-> distinct_suppliers = 1,
     value |-> distinct_suppliers,
     message |-> <<"Found {distinct_suppliers} distinct supplier(s)">>]

CheckSupplierConsistencyError(e) ==
    [check |-> "supplier_consistency",
     passed |-> FALSE,
     value |-> 0,
     message |-> <<"Error checking supplier consistency: ", e>>]

\* variant: any() in place of all()
DqReportAny(quality_checks, row_count) ==
    [status |-> "success",
     checks_passed |-> \E i \in 1..Len(quality_checks) : quality_checks[i].passed,
     total_checks |-> Len(quality_checks),
     passed_checks |->
         Cardinality({i \in 1..Len(quality_checks) : quality_checks[i].passed}),
     failed_checks |->
         Len(quality_checks)
           - Cardinality({i \in 1..Len(quality_checks) : quality_checks[i].passed}),
     quality_checks |-> quality_checks,
     row_count |-> row_count]

DqReport(quality_checks, row_count) ==
    [status |-> "success",
     checks_passed |-> \A i \in 1..Len(quality_checks) : quality_checks[i].passed,
     total_checks |-> Len(quality_checks),
     passed_checks |->
         Cardinality({i \in 1..Len(quality_checks) : quality_checks[i].passed}),
     failed_checks |->
         Len(quality_checks)
           - Cardinality({i \in 1..Len(quality_checks) : quality_checks[i].passed}),
     quality_checks |-> quality_checks,
     row_count |-> row_count]

\* the exception leaves run_data_quality_checks and run_sync
Raise(r, e) == [r EXCEPT !.pc = "raised", !.raised = Some(e)]

\* lines 105-143: the guard of check 4, evaluated outside any try
DqAfterNulls(r) ==
    IF r.row_count > 0
    THEN IF r.actual_columns = None
         THEN Raise(r, UnboundLocalError)
         ELSE IF "supplier_id" \in r.actual_columns[1]
              THEN [r EXCEPT !.pc = "dq_distinct"]
              ELSE RunSyncAfterDq(r, DqReport(r.quality_checks, r.row_count))
    ELSE RunSyncAfterDq(r, DqReport(r.quality_checks, r.row_count))

\* the next required column at or after position k that is an actual column
NextCol(actual_columns, k) ==
    IF \E j \in k..Len(required_columns) : required_columns[j] \in actual_columns
    THEN CHOOSE j \in k..Len(required_columns) :
           /\ required_columns[j] \in actual_columns
           /\ \A i \in k..(j - 1) : required_columns[i] \notin actual_columns
    ELSE 0

\* lines 76-103: the loop of check 3 from position k on, up to its next query
DqNullLoop(r, k) ==
    IF r.actual_columns = None
    THEN DqAfterNulls([r EXCEPT !.quality_checks =
                           Append(@, CheckNullValuesError(UnboundLocalError))])
    ELSE IF NextCol(r.actual_columns[1], k) = 0
         THEN DqAfterNulls([r EXCEPT !.quality_checks =
                                Append(@, CheckNullValues(r.null_counts))])
         ELSE [r EXCEPT !.pc = "dq_nulls", !.col = NextCol(r.actual_columns[1], k)]

\* variant: check 3 is attempted on an empty table too
DqAfterColumnsAlways(r) == DqNullLoop(r, 1)

\* lines 74-75: check 3 is attempted only if row_count > 0
DqAfterColumns(r) ==
    IF r.row_count > 0 THEN DqNullLoop(r, 1) ELSE DqAfterNulls(r)

-----------------------------------------------------------------------------
(* The configuration store: the sync_configs table behind routes_config.py  *)
(* and routes_runs.py.  The table is created by create_config only (CREATE  *)
(* TABLE IF NOT EXISTS ... id VARCHAR PRIMARY KEY); until then a statement  *)
(* that names it raises.                                                    *)

\* config ids are 1..MaxConfigs
MaxConfigs == 2
ConfigIds == 1..MaxConfigs

\* the five fields of a SyncConfig other than its id, taken together
ConfigFields == {"supplier_a.xlsx -> target_a", "supplier_b.xlsx -> target_b"}

SyncConfig(id, fields) == [id |-> id, fields |-> fields]

\* the message of the exception for a table that was never created
UndefinedTable == "relation sync_configs does not exist"
\* the message of the exception for a second row with a stored primary key
UniqueViolation == "duplicate key value violates unique constraint: Key (id) already exists"

\* no request served yet
NoRequest ==
    [op |-> "none", id |-> 0, status |-> 0, detail |-> <<>>, body |-> None,
     transient |-> FALSE]

\* an HTTPException, or a 200 response with its body; transient tells that a
\* statement of the request raised for a reason other than the table's state
Response(op, id, status, detail, body, transient) ==
    [op |-> op, id |-> id, status |-> status, detail |-> detail, body |-> body,
     transient |-> transient]

\* SELECT ... FROM sync_configs WHERE id = '{config_id}'
SelectConfig(tbl, id) == {row \in tbl.rows : row.id = id}

\* warehouse_manager.py 15-17: nothing cached, the lock free, no caller yet
WmThreads == {"t1", "t2"}
WarehouseIds == {"wh-1", "wh-2"}

InitWmThread ==
    [pc |-> "idle", ret |-> None, start_cached |-> None, called |-> FALSE,
     selected |-> None, cleared |-> FALSE]

InitWarehouse ==
    [cached |-> None, lock |-> None, thread |-> [t \in WmThreads |-> InitWmThread]]

\* lakebase.py 14-17: no connection yet, the lock free, no query yet; conn is
\* the connection object a query runs its cursor on, elapsed whether more than
\* 59 minutes have passed since _connection_time
LbThreads == {"q1", "q2"}

\* at most MaxConnections connections are opened
MaxConnections == 3

InitLbThread ==
    [pc |-> "idle", conn |-> 0, start_conn |-> None, created |-> FALSE,
     on_closed |-> FALSE, failed |-> FALSE]

InitLakebase ==
    [connection |-> None, connection_time |-> None, lock |-> None,
     opened |-> 0, closed |-> {},
     thread |-> [t \in LbThreads |-> InitLbThread]]

InitService ==
    /\ configs = [exists |-> FALSE, rows |-> {}]
    /\ http = NoRequest
    /\ warehouse = InitWarehouse
    /\ lakebase = InitLakebase

-----------------------------------------------------------------------------
(* Initial state: nothing ingested yet, an empty target table *)

Init ==
    /\ documents = {}
    /\ target = <<>>
    /\ run = [p \in Runners |-> InitRun]
    /\ InitService

-----------------------------------------------------------------------------
(* The ingestion pipeline writes or removes a version of the tracked file;  *)
(* documents holds the last_modified_timestamp of each version             *)

Ingest ==
    /\ \E ts \in Timestamps :
         \/ /\ ts \notin documents
            /\ Cardinality(documents) < MaxVersions
            /\ documents' = documents \cup {ts}
         \/ /\ ts \in documents
            /\ documents' = documents \ {ts}
    /\ UNCHANGED <<target, run>>
    /\ UNCHANGED service

-----------------------------------------------------------------------------
(* run_sync, one Lakebase.query call per step *)

\* variant: a new call reuses the gate decision of the caller's previous call
StartCached(p) ==
    /\ run[p].pc \in {"idle", "returned", "raised"}
    /\ run' = [run EXCEPT ![p] =
                 IF run[p].gate # None
                 THEN RunSyncAfterGate([InitRun EXCEPT !.pre_target = target],
                                       run[p].gate)
                 ELSE [InitRun EXCEPT !.pc = "gate_docs", !.pre_target = target]]
    /\ UNCHANGED <<documents, target>>
    /\ UNCHANGED service

\* a caller invokes run_sync(config)
Start(p) ==
    /\ run[p].pc \in {"idle", "returned", "raised"}
    /\ run' = [run EXCEPT ![p] = [InitRun EXCEPT !.pc = "gate_docs",
                                                 !.pre_target = target]]
    /\ UNCHANGED <<documents, target>>
    /\ UNCHANGED service

\* update_checker.py 23-54: SELECT ... FROM documents WHERE name = ... LIMIT 1
GateDocuments(p) ==
    /\ run[p].pc = "gate_docs"
    /\ \/ run' = [run EXCEPT ![p] =
                    RunSyncAfterGate(Log(@, "gate_documents", "raise"),
                                     GateDocumentsError(QueryError))]
       \/ /\ documents = {}
          /\ run' = [run EXCEPT ![p] =
                       RunSyncAfterGate(Log(@, "gate_documents", "empty"),
                                        GateFileNotFound)]
       \/ \E ts \in documents :
            run' = [run EXCEPT ![p] =
                      [Log(@, "gate_documents", "rows") EXCEPT
                          !.pc = "gate_target",
                          !.file_last_updated = ts]]
    /\ UNCHANGED <<documents, target>>
    /\ UNCHANGED service

\* variant: the gate's read of the target table clears it
GateTargetWrites(p) ==
    /\ run[p].pc = "gate_target"
    /\ \/ run' = [run EXCEPT ![p] =
                    RunSyncAfterGate(Log(@, "gate_target", "raise"),
                                     GateInitialLoad(@.file_last_updated))]
       \/ run' = [run EXCEPT ![p] =
                    RunSyncAfterGate(
                        Log(@, "gate_target", IF target = <<>> THEN "empty" ELSE "rows"),
                        GateCompared(@.file_last_updated, TableLastUpdated(target)))]
    /\ target' = DeleteFrom(target)
    /\ UNCHANGED documents
    /\ UNCHANGED service

\* update_checker.py 56-96: SELECT last_modified FROM target ORDER BY ... LIMIT 1
GateTarget(p) ==
    /\ run[p].pc = "gate_target"
    /\ \/ run' = [run EXCEPT ![p] =
                    RunSyncAfterGate(Log(@, "gate_target", "raise"),
                                     GateInitialLoad(@.file_last_updated))]
       \/ run' = [run EXCEPT ![p] =
                    RunSyncAfterGate(
                        Log(@, "gate_target", IF target = <<>> THEN "empty" ELSE "rows"),
                        GateCompared(@.file_last_updated, TableLastUpdated(target)))]
    /\ UNCHANGED <<documents, target>>
    /\ UNCHANGED service

\* excel_parser.py 17-53: fetch the document, then read the sheet twice
ParseFetch(p) ==
    /\ run[p].pc = "parse_fetch"
    /\ \/ run' = [run EXCEPT ![p] =
                    RunSyncAfterParse(Log(@, "parse_documents", "raise"),
                                      ParseReadError(QueryError))]
       \/ /\ documents = {}
          /\ run' = [run EXCEPT ![p] =
                       RunSyncAfterParse(Log(@, "parse_documents", "empty"),
                                         ParseFileNotFound)]
       \/ \E ts \in documents, sheet \in SheetContents :
            run' = [run EXCEPT ![p] =
                      ParseRead(Log(@, "parse_documents", "rows"), ts, sheet)]
    /\ UNCHANGED <<documents, target>>
    /\ UNCHANGED service

\* variant: the DELETE waits while another caller is between its own DELETE
\* and its last INSERT
ParseDeleteLocked(p) ==
    /\ run[p].pc = "parse_delete"
    /\ \A q \in Runners \ {p} : run[q].pc # "parse_insert"
    /\ \/ /\ run' = [run EXCEPT ![p] =
                       RunSyncAfterParse(Log(@, "delete", "raise"),
                                         ParseError(QueryError))]
          /\ UNCHANGED target
       \/ /\ target' = DeleteFrom(target)
          /\ run' = [run EXCEPT ![p] =
                       IF @.data_df = 0
                       THEN RunSyncAfterParse(
                                [Log(@, "delete", "rows") EXCEPT !.deletes = @ + 1],
                                ParseEmpty(@.supplier_id))
                       ELSE [Log(@, "delete", "rows") EXCEPT !.deletes = @ + 1,
                                                            !.pc = "parse_insert"]]
    /\ UNCHANGED documents
    /\ UNCHANGED service

\* variant: a DELETE that raised is issued again
ParseDeleteRetried(p) ==
    /\ run[p].pc = "parse_delete"
    /\ \/ /\ run' = [run EXCEPT ![p] = Log(@, "delete", "raise")]
          /\ UNCHANGED target
       \/ /\ target' = DeleteFrom(target)
          /\ run' = [run EXCEPT ![p] =
                       IF @.data_df = 0
                       THEN RunSyncAfterParse(
                                [Log(@, "delete", "rows") EXCEPT !.deletes = @ + 1],
                                ParseEmpty(@.supplier_id))
                       ELSE [Log(@, "delete", "rows") EXCEPT !.deletes = @ + 1,
                                                            !.pc = "parse_insert"]]
    /\ UNCHANGED documents
    /\ UNCHANGED service

\* excel_parser.py 55-64: DELETE FROM target, then the empty-frame return
ParseDelete(p) ==
    /\ run[p].pc = "parse_delete"
    /\ \/ /\ run' = [run EXCEPT ![p] =
                       RunSyncAfterParse(Log(@, "delete", "raise"),
                                         ParseError(QueryError))]
          /\ UNCHANGED target
       \/ /\ target' = DeleteFrom(target)
          /\ run' = [run EXCEPT ![p] =
                       IF @.data_df = 0
                       THEN RunSyncAfterParse(
                                [Log(@, "delete", "rows") EXCEPT !.deletes = @ + 1],
                                ParseEmpty(@.supplier_id))
                       ELSE [Log(@, "delete", "rows") EXCEPT !.deletes = @ + 1,
                                                            !.pc = "parse_insert"]]
    /\ UNCHANGED documents
    /\ UNCHANGED service

\* excel_parser.py 69-101: one INSERT of the loop; an exception leaves the loop
ParseInsert(p) ==
    /\ run[p].pc = "parse_insert"
    /\ \/ /\ run' = [run EXCEPT ![p] =
                       RunSyncAfterParse(
                           [Log(@, "insert", "raise") EXCEPT !.insert_failures = @ + 1],
                           ParseError(QueryError))]
          /\ UNCHANGED target
       \/ /\ target' = InsertInto(target, TargetTableRow(run[p].supplier_id,
                                                         run[p].last_modified))
          /\ run' = [run EXCEPT ![p] =
                       IF @.inserted + 1 = @.data_df
                       THEN RunSyncAfterParse(
                                [Log(@, "insert", "rows") EXCEPT !.inserted = @ + 1],
                                ParseSuccess(@.data_df, @.supplier_id))
                       ELSE [Log(@, "insert", "rows") EXCEPT !.inserted = @ + 1]]
    /\ UNCHANGED documents
    /\ UNCHANGED service

\* data_quality.py 19-40: SELECT COUNT(*) FROM target
DqCount(p) ==
    /\ run[p].pc = "dq_count"
    /\ \/ run' = [run EXCEPT ![p] =
                    RunSyncAfterDq(Log(@, "count", "raise"), DqTableError(QueryError))]
       \/ run' = [run EXCEPT ![p] =
                    [Log(@, "count", "rows") EXCEPT
                        !.pc = "dq_columns",
                        !.row_count = Len(target),
                        !.quality_checks = <<CheckRowCount(Len(target))>>]]
    /\ UNCHANGED <<documents, target>>
    /\ UNCHANGED service

\* data_quality.py 42-72: SELECT column_name FROM information_schema.columns
DqColumns(p) ==
    /\ run[p].pc = "dq_columns"
    /\ \/ run' = [run EXCEPT ![p] =
                    DqAfterColumns([Log(@, "columns", "raise") EXCEPT
                        !.quality_checks =
                            Append(@, CheckRequiredColumnsError(QueryError))])]
       \/ \E target_columns \in TargetSchemas :
            run' = [run EXCEPT ![p] =
                      DqAfterColumns([Log(@, "columns", "rows") EXCEPT
                          !.actual_columns = Some(target_columns),
                          !.quality_checks =
                              Append(@, CheckRequiredColumns(target_columns))])]
    /\ UNCHANGED <<documents, target>>
    /\ UNCHANGED service

\* data_quality.py 78-103: the NULL count of one required column
DqNulls(p) ==
    /\ run[p].pc = "dq_nulls"
    /\ \/ run' = [run EXCEPT ![p] =
                    DqAfterNulls([Log(@, "nulls", "raise") EXCEPT
                        !.quality_checks =
                            Append(@, CheckNullValuesError(QueryError))])]
       \/ run' = [run EXCEPT ![p] =
                    DqNullLoop([Log(@, "nulls", "rows") EXCEPT
                        !.null_counts =
                            Append(@, <<required_columns[run[p].col],
                                        NullCount(target, required_columns[run[p].col])>>)],
                        run[p].col + 1)]
    /\ UNCHANGED <<documents, target>>
    /\ UNCHANGED service

\* data_quality.py 105-143: SELECT COUNT(DISTINCT supplier_id) FROM target
DqDistinct(p) ==
    /\ run[p].pc = "dq_distinct"
    /\ \/ run' = [run EXCEPT ![p] =
                    RunSyncAfterDq(
                        Log(@, "distinct", "raise"),
                        DqReport(Append(@.quality_checks,
                                        CheckSupplierConsistencyError(QueryError)),
                                 @.row_count))]
       \/ run' = [run EXCEPT ![p] =
                    RunSyncAfterDq(
                        Log(@, "distinct", "rows"),
                        DqReport(Append(@.quality_checks,
                                        CheckSupplierConsistency(DistinctSuppliers(target))),
                                 @.row_count))]
    /\ UNCHANGED <<documents, target>>
    /\ UNCHANGED service

RunSync(p) ==
    \/ Start(p)
    \/ GateDocuments(p)
    \/ GateTarget(p)
    \/ ParseFetch(p)
    \/ ParseDelete(p)
    \/ ParseInsert(p)
    \/ DqCount(p)
    \/ DqColumns(p)
    \/ DqNulls(p)
    \/ DqDistinct(p)

\* one caller at a time: run_sync calls follow one another
Next == Ingest \/ RunSync("r1")

Spec == Init /\ [][Next]_vars

-----------------------------------------------------------------------------
(* Two callers invoke run_sync for the same config at the same time, each   *)
(* once, while two versions of the file are in the documents table and the *)
(* target table is still empty.  The calls are followed up to the end of   *)
(* their materialization; their queries interleave freely, each query being *)
(* one execute/fetchall/commit on the shared connection.                    *)

\* a caller that has made no call yet invokes run_sync; it makes no second call
FirstCall(p) ==
    /\ run[p].pc = "idle"
    /\ Start(p)

\* run_sync up to the return of parse_excel_to_delta
Materialize(p) ==
    \/ FirstCall(p)
    \/ GateDocuments(p)
    \/ GateTarget(p)
    \/ ParseFetch(p)
    \/ ParseDelete(p)
    \/ ParseInsert(p)

InitConcurrent ==
    /\ documents = {1, MaxTs}
    /\ target = <<>>
    /\ run = [p \in Runners |-> InitRun]
    /\ InitService

NextConcurrent == Materialize("r1") \/ Materialize("r2")

SpecConcurrent == InitConcurrent /\ [][NextConcurrent]_vars

-----------------------------------------------------------------------------
(* Two run_sync calls for the same config, one right after the other: the   *)
(* second (r2) starts once the first (r1) has returned a result whose       *)
(* materialization succeeded; the documents table is not written meanwhile. *)

\* what is left of a call once its result has been looked at: its status
Finished(r) ==
    [InitRun EXCEPT !.pc = "returned",
                    !.result = RunResult(r.result.status, None, None, None)]

\* the second call, made when the first has returned 'success' or 'dq_failed'
SecondCall ==
    /\ run["r1"].pc = "returned"
    /\ run["r1"].result.status \in {"success", "dq_failed"}
    /\ run["r2"].pc = "idle"
    /\ run' = [run EXCEPT !["r1"] = Finished(@),
                          !["r2"] = [InitRun EXCEPT !.pc = "gate_docs",
                                                    !.pre_target = target]]
    /\ UNCHANGED <<documents, target>>
    /\ UNCHANGED service

\* one or more versions of the file ingested; the target empty or loaded by
\* an earlier run
InitTwice ==
    /\ documents \in {d \in SUBSET Timestamps : d # {} /\ Cardinality(d) <= MaxVersions}
    /\ target \in {<<>>, <<TargetTableRow("A", 1)>>}
    /\ run = [p \in Runners |-> InitRun]
    /\ InitService

NextTwice ==
    \/ FirstCall("r1")
    \/ SecondCall
    \/ \E p \in Runners :
         \/ GateDocuments(p)
         \/ GateTarget(p)
         \/ ParseFetch(p)
         \/ ParseDelete(p)
         \/ ParseInsert(p)
         \/ DqCount(p)
         \/ DqColumns(p)
         \/ DqNulls(p)
         \/ DqDistinct(p)

SpecTwice == InitTwice /\ [][NextTwice]_vars

-----------------------------------------------------------------------------
(* The /configs endpoints; each request is served to its response in one    *)
(* step, its statements executed in order.                                  *)

pipeline == <<documents, target, run>>

\* routes_config.py 80-83: the status create_config gives an exception
CreateConfigError(id, e) ==
    IF e = UniqueViolation
    THEN Response("create", id, 400,
                  <<"Configuration with id '{config.id}' already exists">>, None, FALSE)
    ELSE Response("create", id, 500, <<"Failed to create config: ", e>>, None, TRUE)

\* POST /configs
CreateConfig ==
    /\ \E config \in [id : ConfigIds, fields : ConfigFields] :
         \/ /\ configs' = configs
            /\ http' = CreateConfigError(config.id, QueryError)
         \/ /\ configs' = [configs EXCEPT !.exists = TRUE]
            /\ http' = CreateConfigError(config.id, QueryError)
         \/ /\ SelectConfig(configs, config.id) # {}
            /\ configs' = [configs EXCEPT !.exists = TRUE]
            /\ http' = CreateConfigError(config.id, UniqueViolation)
         \/ /\ SelectConfig(configs, config.id) = {}
            /\ configs' = [exists |-> TRUE, rows |-> configs.rows \cup {config}]
            /\ http' = Response("create", config.id, 200, <<>>,
                                [message |-> "Configuration created successfully",
                                 id |-> config.id],
                                FALSE)
    /\ UNCHANGED <<pipeline, warehouse, lakebase>>

\* GET /configs/{config_id}
GetConfig ==
    /\ \E config_id \in ConfigIds :
         \/ http' = Response("get", config_id, 500,
                             <<"Failed to get config: ", QueryError>>, None, TRUE)
         \/ /\ ~configs.exists
            /\ http' = Response("get", config_id, 500,
                                <<"Failed to get config: ", UndefinedTable>>, None, FALSE)
         \/ /\ configs.exists
            /\ SelectConfig(configs, config_id) = {}
            /\ http' = Response("get", config_id, 404,
                                <<"Configuration '{config_id}' not found">>, None, FALSE)
         \/ /\ configs.exists
            /\ \E row \in SelectConfig(configs, config_id) :
                 http' = Response("get", config_id, 200, <<>>, row, FALSE)
    /\ UNCHANGED <<pipeline, configs, warehouse, lakebase>>

\* DELETE /configs/{config_id}
DeleteConfig ==
    /\ \E config_id \in ConfigIds :
         \/ /\ configs' = configs
            /\ http' = Response("delete", config_id, 500,
                                <<"Failed to delete config: ", QueryError>>, None, TRUE)
         \/ /\ ~configs.exists
            /\ configs' = configs
            /\ http' = Response("delete", config_id, 500,
                                <<"Failed to delete config: ", UndefinedTable>>, None, FALSE)
         \/ /\ configs.exists
            /\ SelectConfig(configs, config_id) = {}
            /\ configs' = configs
            /\ http' = Response("delete", config_id, 404,
                                <<"Configuration '{config_id}' not found">>, None, FALSE)
         \/ /\ configs.exists
            /\ SelectConfig(configs, config_id) # {}
            /\ configs' = [configs EXCEPT !.rows = @ \ SelectConfig(configs, config_id)]
            /\ http' = Response("delete", config_id, 200, <<>>,
                                [message |-> "Configuration deleted successfully",
                                 id |-> config_id],
                                FALSE)
    /\ UNCHANGED <<pipeline, warehouse, lakebase>>

NextConfigs == CreateConfig \/ GetConfig \/ DeleteConfig

SpecConfigs == Init /\ [][NextConfigs]_vars

-----------------------------------------------------------------------------
(* POST /runs/run/{config_id}: the lookup of the config, the run_sync call  *)
(* it makes as caller r1, and the response.  A request is served to its end *)
(* before the next one; status 0 marks the request whose run_sync call has  *)
(* not ended yet, its body being the config passed to run_sync.             *)

\* routes_runs.py 31-62: the lookup, up to the call of run_sync
RunByConfigId ==
    /\ http.status # 0 \/ http.op = "none"
    /\ run["r1"].pc \in {"idle", "returned", "raised"}
    /\ \E config_id \in ConfigIds :
         \/ /\ http' = Response("run", config_id, 500,
                                <<"Failed to run sync: ", QueryError>>, None, TRUE)
            /\ run' = run
         \/ /\ ~configs.exists
            /\ http' = Response("run", config_id, 500,
                                <<"Failed to run sync: ", UndefinedTable>>, None, FALSE)
            /\ run' = run
         \/ /\ configs.exists
            /\ SelectConfig(configs, config_id) = {}
            /\ http' = Response("run", config_id, 404,
                                <<"Configuration '{config_id}' not found">>, None, FALSE)
            /\ run' = run
         \/ /\ configs.exists
            /\ \E row \in SelectConfig(configs, config_id) :
                 /\ http' = Response("run", config_id, 0, <<>>,
                                     SyncConfig(row.id, row.fields), FALSE)
                 /\ run' = [run EXCEPT !["r1"] =
                              [InitRun EXCEPT !.pc = "gate_docs",
                                              !.pre_target = target]]
    /\ UNCHANGED <<documents, target, configs, warehouse, lakebase>>

\* routes_runs.py 58-65: run_sync has returned or raised
RunRespond ==
    /\ http.op = "run"
    /\ http.status = 0
    /\ \/ /\ run["r1"].pc = "returned"
          /\ http' = Response("run", http.id, 200, <<>>, run["r1"].result, FALSE)
       \/ /\ run["r1"].pc = "raised"
          /\ http' = Response("run", http.id, 500,
                              <<"Failed to run sync: ", run["r1"].raised[1]>>, None, FALSE)
    /\ UNCHANGED <<pipeline, configs, warehouse, lakebase>>

\* the steps of the run_sync call the endpoint has made
RunSyncCalled ==
    \/ GateDocuments("r1")
    \/ GateTarget("r1")
    \/ ParseFetch("r1")
    \/ ParseDelete("r1")
    \/ ParseInsert("r1")
    \/ DqCount("r1")
    \/ DqColumns("r1")
    \/ DqNulls("r1")
    \/ DqDistinct("r1")

\* a store never created, an empty store, or a store holding config 1; one
\* version of the file ingested
InitRuns ==
    /\ documents = {1}
    /\ target = <<>>
    /\ run = [p \in Runners |-> InitRun]
    /\ configs \in {[exists |-> FALSE, rows |-> {}],
                    [exists |-> TRUE, rows |-> {}]}
                   \cup {[exists |-> TRUE, rows |-> {SyncConfig(1, fields)}] :
                           fields \in ConfigFields}
    /\ http = NoRequest
    /\ warehouse = InitWarehouse
    /\ lakebase = InitLakebase

NextRuns == RunByConfigId \/ RunSyncCalled \/ RunRespond

SpecRuns == InitRuns /\ [][NextRuns]_vars

-----------------------------------------------------------------------------
(* WarehouseManager: get_warehouse_id(force_auto_select=True) called by     *)
(* several threads, one step per read or write of the shared cache.         *)
(* Of each call the model records what the cache held when the call         *)
(* started (start_cached), whether the call ran the selection tool (called), *)
(* the id the tool gave it (selected) and whether clear_cache ran since the  *)
(* call started (cleared).                                                   *)

W(t) == warehouse.thread[t]

WmStep(t, cached, lock, thread) ==
    warehouse' = [cached |-> cached, lock |-> lock,
                  thread |-> [warehouse.thread EXCEPT ![t] = thread]]

\* warehouse_manager.py 24-45: the call starts and tests the cache without
\* the lock
WmCheck(t) ==
    /\ W(t).pc \in {"idle", "done"}
    /\ WmStep(t, warehouse.cached, warehouse.lock,
              [InitWmThread EXCEPT
                 !.pc = IF warehouse.cached = None THEN "acquire" ELSE "return",
                 !.start_cached = warehouse.cached])
    /\ UNCHANGED <<pipeline, store, lakebase>>

\* warehouse_manager.py 46: with self._lock
WmAcquire(t) ==
    /\ W(t).pc = "acquire"
    /\ warehouse.lock = None
    /\ WmStep(t, warehouse.cached, Some(t), [W(t) EXCEPT !.pc = "recheck"])
    /\ UNCHANGED <<pipeline, store, lakebase>>

\* warehouse_manager.py 48 without the second test: the holder of the lock
\* always selects
WmRecheckSkipped(t) ==
    /\ W(t).pc = "recheck"
    /\ WmStep(t, warehouse.cached, warehouse.lock, [W(t) EXCEPT !.pc = "select"])
    /\ UNCHANGED <<pipeline, store, lakebase>>

\* warehouse_manager.py 48: the second test, under the lock; a filled cache
\* leaves the with block
WmRecheck(t) ==
    /\ W(t).pc = "recheck"
    /\ IF warehouse.cached = None
         THEN WmStep(t, warehouse.cached, warehouse.lock,
                     [W(t) EXCEPT !.pc = "select"])
         ELSE WmStep(t, warehouse.cached, None, [W(t) EXCEPT !.pc = "return"])
    /\ UNCHANGED <<pipeline, store, lakebase>>

\* warehouse_manager.py 49-60 and mcp_client.py 54-87: the tool returns a
\* warehouse id or {"result": None}, which line 57 stores, or raises, and
\* the call returns None; either way the lock is released
WmSelect(t) ==
    /\ W(t).pc = "select"
    /\ \/ \E result \in {None} \cup {Some(w) : w \in WarehouseIds} :
            WmStep(t, result, None,
                   [W(t) EXCEPT !.pc = "return", !.called = TRUE,
                                !.selected = result])
       \/ WmStep(t, warehouse.cached, None,
                 [W(t) EXCEPT !.pc = "done", !.ret = None, !.called = TRUE])
    /\ UNCHANGED <<pipeline, store, lakebase>>

\* warehouse_manager.py 62: the cache is read again, without the lock
WmReturn(t) ==
    /\ W(t).pc = "return"
    /\ WmStep(t, warehouse.cached, warehouse.lock,
              [W(t) EXCEPT !.pc = "done", !.ret = warehouse.cached])
    /\ UNCHANGED <<pipeline, store, lakebase>>

\* warehouse_manager.py 64-67: clear_cache, under the lock
ClearCache ==
    /\ warehouse.lock = None
    /\ warehouse' = [warehouse EXCEPT
                       !.cached = None,
                       !.thread = [t \in WmThreads |->
                                     [warehouse.thread[t] EXCEPT !.cleared = TRUE]]]
    /\ UNCHANGED <<pipeline, store, lakebase>>

GetWarehouseId(t) ==
    \/ WmCheck(t)
    \/ WmAcquire(t)
    \/ WmRecheck(t)
    \/ WmSelect(t)
    \/ WmReturn(t)

NextWarehouse == GetWarehouseId("t1") \/ GetWarehouseId("t2") \/ ClearCache

SpecWarehouse == Init /\ [][NextWarehouse]_vars

-----------------------------------------------------------------------------
(* Lakebase.query called by several threads, one step per read or write of  *)
(* the shared _connection, _connection_time and _lock; a connection is      *)
(* named by the order in which it was opened.                               *)

L(t) == lakebase.thread[t]

LbStep(t, fields, thread) ==
    lakebase' = [fields EXCEPT !.thread = [lakebase.thread EXCEPT ![t] = thread]]

\* lakebase.py 24-29
ShouldRefreshConnection ==
    lakebase.connection_time = None \/ lakebase.connection_time = Some("elapsed")

\* the test of lines 82 and 88
ConnectionUsable == lakebase.connection # None /\ ~ShouldRefreshConnection

\* more than 59 minutes have passed since _connection_time
Elapse ==
    /\ lakebase.connection_time = Some("recent")
    /\ lakebase' = [lakebase EXCEPT !.connection_time = Some("elapsed")]
    /\ UNCHANGED <<pipeline, store, warehouse>>

\* lakebase.py 98-115, 79-83: query starts; the quick check without the lock
LbCheck(t) ==
    /\ L(t).pc \in {"idle", "done"}
    /\ LbStep(t, lakebase,
              [InitLbThread EXCEPT
                 !.pc = IF ConnectionUsable THEN "cursor" ELSE "acquire",
                 !.start_conn = IF ConnectionUsable THEN lakebase.connection ELSE None])
    /\ UNCHANGED <<pipeline, store, warehouse>>

\* lakebase.py 86: with self._lock
LbAcquire(t) ==
    /\ L(t).pc = "acquire"
    /\ lakebase.lock = None
    /\ LbStep(t, [lakebase EXCEPT !.lock = Some(t)], [L(t) EXCEPT !.pc = "recheck"])
    /\ UNCHANGED <<pipeline, store, warehouse>>

\* lakebase.py 88-91: the check again, under the lock
LbRecheck(t) ==
    /\ L(t).pc = "recheck"
    /\ IF ConnectionUsable
         THEN LbStep(t, [lakebase EXCEPT !.lock = None], [L(t) EXCEPT !.pc = "cursor"])
         ELSE LbStep(t, lakebase,
                     [L(t) EXCEPT !.pc = IF lakebase.connection # None
                                         THEN "close" ELSE "connect"])
    /\ UNCHANGED <<pipeline, store, warehouse>>

\* lakebase.py 91-95: self._connection.close()
LbClose(t) ==
    /\ L(t).pc = "close"
    /\ LbStep(t, [lakebase EXCEPT !.closed = @ \cup {lakebase.connection[1]}],
              [L(t) EXCEPT !.pc = "connect"])
    /\ UNCHANGED <<pipeline, store, warehouse>>

\* lakebase.py 31-70: the credentials and psycopg2.connect; an exception
\* leaves _ensure_connection and query, releasing the lock
LbConnect(t) ==
    /\ L(t).pc = "connect"
    /\ \/ /\ lakebase.opened < MaxConnections
          /\ LbStep(t, [lakebase EXCEPT !.connection = Some(lakebase.opened + 1),
                                        !.opened = @ + 1],
                    [L(t) EXCEPT !.pc = "stamp", !.created = TRUE])
       \/ LbStep(t, [lakebase EXCEPT !.lock = None],
                 [L(t) EXCEPT !.pc = "done", !.failed = TRUE])
    /\ UNCHANGED <<pipeline, store, warehouse>>

\* lakebase.py 71: self._connection_time = datetime.now(); the with block ends
LbStamp(t) ==
    /\ L(t).pc = "stamp"
    /\ LbStep(t, [lakebase EXCEPT !.connection_time = Some("recent"), !.lock = None],
              [L(t) EXCEPT !.pc = "cursor"])
    /\ UNCHANGED <<pipeline, store, warehouse>>

\* lakebase.py 123: self._connection.cursor(), read without the lock
LbCursor(t) ==
    /\ L(t).pc = "cursor"
    /\ LbStep(t, lakebase, [L(t) EXCEPT !.pc = "execute",
                                        !.conn = lakebase.connection[1]])
    /\ UNCHANGED <<pipeline, store, warehouse>>

\* lakebase.py 124-134: execute, fetchall, commit on that connection
LbExecute(t) ==
    /\ L(t).pc = "execute"
    /\ LbStep(t, lakebase, [L(t) EXCEPT !.pc = "done",
                                        !.on_closed = L(t).conn \in lakebase.closed])
    /\ UNCHANGED <<pipeline, store, warehouse>>

Query(t) ==
    \/ LbCheck(t)
    \/ LbAcquire(t)
    \/ LbRecheck(t)
    \/ LbClose(t)
    \/ LbConnect(t)
    \/ LbStamp(t)
    \/ LbCursor(t)
    \/ LbExecute(t)

NextLakebase == Query("q1") \/ Query("q2") \/ Elapse

SpecLakebase == Init /\ [][NextLakebase]_vars

-----------------------------------------------------------------------------
(* Properties of run_sync, stated of the calls of caller r1 *)

R == run["r1"]

Returned == R.pc = "returned"

\* the gate has decided
Gated == R.gate # None

\* the k-th call of the run ended with the given outcome
Called(k, call, outcome) == Len(R.log) >= k /\ R.log[k] = <<call, outcome>>

\* the largest last_modified stored in a non-empty table
StoredWatermark(tbl) ==
    CHOOSE m \in Timestamps :
      /\ \E i \in 1..Len(tbl) : tbl[i].last_modified = m
      /\ \A i \in 1..Len(tbl) : tbl[i].last_modified <= m

ContainsNotFound(reason) ==
    reason[1] \in {"File {file_name} not found in {docs_table_fq}",
                   "Excel file {file_name} not found in {docs_table_fq}"}

\* C1: a returned run's status is 'skipped' iff the gate said should_process
\* = false, 'error' iff the gate said true and materialization did not
\* succeed, 'success' iff materialization succeeded and the audit's
\* checks_passed is true, 'dq_failed' iff it succeeded and checks_passed is
\* false.
C1_StatusMapping ==
    Returned =>
      /\ R.result.status \in {"skipped", "success", "dq_failed", "error"}
      /\ (R.result.status = "skipped") <=> ~R.gate.should_process
      /\ (R.result.status = "error") <=>
           (/\ R.gate.should_process
            /\ R.parse_result # None
            /\ R.parse_result.status # "success")
      /\ (R.result.status = "success") <=>
           (/\ R.parse_result # None
            /\ R.parse_result.status = "success"
            /\ R.dq_result # None
            /\ R.dq_result.checks_passed)
      /\ (R.result.status = "dq_failed") <=>
           (/\ R.parse_result # None
            /\ R.parse_result.status = "success"
            /\ R.dq_result # None
            /\ ~R.dq_result.checks_passed)

C1_Witness ==
    /\ Returned
    /\ R.result.status = "dq_failed"
    /\ R.dq_result.status = "success"
    /\ R.parse_result.rows_processed > 0

\* C2: no exception escapes run_sync: whatever the queries do, the call ends
\* by returning a RunResult, never by raising.
C2_NoExceptionEscapes == R.pc # "raised"

\* C3: when the gate has read both timestamps and the document's
\* file_last_updated is not greater than the watermark stored in the target
\* table, the run returns 'skipped', issues no DELETE and no INSERT, and
\* leaves the target table's contents as they were before the call; this
\* holds of every call, so of two calls in a row.
C3_Idempotence ==
    (/\ Returned
     /\ Called(2, "gate_target", "rows")
     /\ R.file_last_updated <= StoredWatermark(R.pre_target))
    => /\ R.result.status = "skipped"
       /\ target = R.pre_target
       /\ R.deletes = 0
       /\ R.inserted = 0
       /\ \A k \in 1..Len(R.log) : R.log[k][1] \notin {"delete", "insert"}

C3_Witness ==
    /\ Returned
    /\ Called(2, "gate_target", "rows")
    /\ R.file_last_updated < StoredWatermark(R.pre_target)
    /\ R.result.status = "skipped"
    /\ target = R.pre_target

\* C4: when the document row is found and the target read succeeds,
\* should_process = (table_last_updated is null) or (file_last_updated >
\* table_last_updated), table_last_updated being the largest last_modified
\* stored in the target table, null when it has no rows; equal timestamps give
\* should_process = false.
C4_GateComparison ==
    (Gated /\ Len(R.log) >= 2 /\ R.log[2][1] = "gate_target" /\ R.log[2][2] # "raise")
    => /\ R.gate.should_process =
            (R.pre_target = <<>> \/ R.file_last_updated > StoredWatermark(R.pre_target))
       /\ R.gate.table_last_updated =
            (IF R.pre_target = <<>> THEN None ELSE Str(StoredWatermark(R.pre_target)))
       /\ R.gate.file_last_updated = Str(R.file_last_updated)

C4_Witness ==
    /\ Gated
    /\ Called(2, "gate_target", "rows")
    /\ R.file_last_updated = StoredWatermark(R.pre_target)
    /\ ~R.gate.should_process

\* C5: when the document row is found and the read of the target table
\* fails, the gate returns should_process = true, table_last_updated = null
\* and the 'initial load required' reason, whatever the file's timestamp.
C5_Bootstrap ==
    (Gated /\ Called(1, "gate_documents", "rows") /\ Called(2, "gate_target", "raise"))
    => /\ R.gate.should_process
       /\ R.gate.table_last_updated = None
       /\ R.gate.reason = <<"Target table does not exist; initial load required.">>
       /\ R.gate.file_last_updated = Str(R.file_last_updated)

C5_Witness ==
    /\ Gated
    /\ Called(2, "gate_target", "raise")
    /\ R.pre_target # <<>>
    /\ R.file_last_updated < StoredWatermark(R.pre_target)
    /\ R.gate.should_process

\* C6: when no row of the documents table matches the file name, the gate
\* returns should_process = false, a reason containing 'not found' and both
\* timestamps null, and run_sync returns 'skipped' without calling the
\* materializer.
C6_FileNotFound ==
    (Gated /\ Called(1, "gate_documents", "empty"))
    => /\ ~R.gate.should_process
       /\ ContainsNotFound(R.gate.reason)
       /\ R.gate.file_last_updated = None
       /\ R.gate.table_last_updated = None
       /\ Returned
       /\ R.result.status = "skipped"
       /\ R.result.parse = None
       /\ R.parse_result = None
       /\ Len(R.log) = 1
       /\ target = R.pre_target

C6_Witness ==
    /\ Returned
    /\ Called(1, "gate_documents", "empty")
    /\ R.result.status = "skipped"
    /\ R.pre_target # <<>>

\* C7: a query failure in the documents lookup makes the gate return
\* should_process = false with the exception message in reason and both
\* timestamps null, and the call returns; a query failure in the target read
\* makes it return should_process = true.
C7_GateFailures ==
    /\ (Gated /\ Called(1, "gate_documents", "raise"))
       => /\ ~R.gate.should_process
          /\ R.gate.reason = <<"Error reading documents table: ", QueryError>>
          /\ R.gate.file_last_updated = None
          /\ R.gate.table_last_updated = None
          /\ Returned
          /\ R.result.status = "skipped"
          /\ Len(R.log) = 1
    /\ (Gated /\ Called(2, "gate_target", "raise")) => R.gate.should_process

C7_Witness ==
    /\ Returned
    /\ Called(1, "gate_documents", "raise")
    /\ documents # {}
    /\ R.result.status = "skipped"

\* C8: after a successful materialization the target table holds as many
\* rows as the parser produced minus the rows whose insert failed, whatever it
\* held before; so the same frame materialized again gives the same count.
C8_FullReplace ==
    (R.parse_result # None /\ R.parse_result.status = "success")
    => Len(target) = R.data_df - R.insert_failures

C8_Witness ==
    /\ R.parse_result # None
    /\ R.parse_result.status = "success"
    /\ R.data_df > 0
    /\ Len(R.pre_target) > 0
    /\ Len(R.pre_target) # R.data_df

\* C9: if the insert of one row fails, materialization skips that row, goes
\* on with the rest and returns 'success' with rows_processed equal to the
\* number of rows whose insert succeeded.
C9_PartialRowFailureIsolation ==
    (R.parse_result # None /\ R.insert_failures > 0)
    => /\ R.parse_result.status = "success"
       /\ R.parse_result.rows_processed = R.inserted

\* C10: if the document fetch returns no row or raises, or reading the sheet
\* raises, materialization returns 'error' with rows_processed = 0 and the
\* target table is as it was before the call; a DELETE is issued only right
\* after both sheet reads have succeeded.
C10_FetchOrParseFailure ==
    /\ (\E k \in 1..Len(R.log) :
          R.log[k] \in {<<"parse_documents", "raise">>,
                        <<"parse_documents", "empty">>,
                        <<"read_excel", "raise">>})
       => /\ R.parse_result # None
          /\ R.parse_result.status = "error"
          /\ R.parse_result.rows_processed = 0
          /\ target = R.pre_target
          /\ R.deletes = 0
          /\ Returned
          /\ R.result.status = "error"
    /\ \A k \in 1..Len(R.log) :
          R.log[k][1] = "delete" => (k > 1 /\ R.log[k - 1] = <<"read_excel", "rows">>)

C10_Witness ==
    /\ Returned
    /\ \E k \in 1..Len(R.log) : R.log[k] = <<"read_excel", "raise">>
    /\ R.pre_target # <<>>
    /\ R.parse_result.status = "error"
    /\ target = R.pre_target

\* the audit has returned a report that carries a checks list
Reported == R.dq_result # None /\ R.dq_result.status = "success"

\* the audit's report lists a check of the given name
Lists(name) ==
    \E i \in 1..Len(R.dq_result.quality_checks) :
      R.dq_result.quality_checks[i].check = name

\* the check of the given name in the audit's report
Listed(name) ==
    R.dq_result.quality_checks[
        CHOOSE i \in 1..Len(R.dq_result.quality_checks) :
          R.dq_result.quality_checks[i].check = name]

\* some call of the run ended with the given outcome
Logged(call, outcome) == \E k \in 1..Len(R.log) : R.log[k] = <<call, outcome>>

\* C11: when the parsed frame has no data rows, materialization still
\* deletes every row of the target table, inserts nothing and returns
\* 'success' with rows_processed = 0 and the 'cleared existing data' message;
\* the audit that follows lists row_count with passed = false, and run_sync
\* returns 'dq_failed'.
C11_EmptySpreadsheet ==
    (R.parse_result # None /\ R.parse_result.status = "success" /\ R.data_df = 0)
    => /\ R.parse_result.rows_processed = 0
       /\ R.parse_result.message = <<"Empty table (cleared existing data)">>
       /\ Logged("delete", "rows")
       /\ ~Logged("insert", "rows")
       /\ target = <<>>
       /\ R.pc # "raised"
       /\ Logged("count", "rows") =>
             (R.quality_checks[1].check = "row_count" /\ ~R.quality_checks[1].passed)
       /\ Reported =>
             (Listed("row_count").passed = FALSE /\ Listed("row_count").value = 0)
       /\ Returned => (R.result.status = "dq_failed" /\ ~R.dq_result.checks_passed)

C11_Witness ==
    /\ Returned
    /\ R.data_df = 0
    /\ R.parse_result # None
    /\ R.parse_result.status = "success"
    /\ R.pre_target # <<>>
    /\ target = <<>>
    /\ Reported
    /\ ~Listed("row_count").passed
    /\ R.result.status = "dq_failed"

\* materialization has returned 'success'
Materialized == R.parse_result # None /\ R.parse_result.status = "success"

\* C12 as stated: after a successful materialization by a single run every
\* row of the target carries the same supplier_id and the same last_modified,
\* and the audit that follows lists supplier_consistency with a distinct count
\* of exactly 1.
C12_SingleSupplier ==
    (Returned /\ Materialized)
    => /\ \A i, j \in 1..Len(target) : target[i] = target[j]
       /\ Reported
       /\ Lists("supplier_consistency")
       /\ Listed("supplier_consistency").value = 1

\* C12 amended: after a successful materialization by a single run every row
\* of the target carries the supplier_id read from B1 and the document's
\* last_modified.  The audit lists supplier_consistency only when the frame
\* had rows and supplier_id is among the actual columns; the distinct count
\* it reports is 1 when B1 held a value and the query returned, and 0 when
\* B1 was empty (every supplier_id is NULL) or the query failed.
C12_SingleSupplierAmended ==
    Materialized
    => /\ \A i \in 1..Len(target) :
             target[i] = TargetTableRow(R.supplier_id, R.last_modified)
       /\ (Reported /\ Lists("supplier_consistency")) =>
             /\ R.data_df > 0
             /\ "supplier_id" \in R.actual_columns[1]
             /\ Listed("supplier_consistency").value =
                  (IF Logged("distinct", "rows") /\ R.supplier_id # NaN THEN 1 ELSE 0)
             /\ Listed("supplier_consistency").passed =
                  (Logged("distinct", "rows") /\ R.supplier_id # NaN)
       /\ (Reported /\ ~Lists("supplier_consistency")) =>
             \/ R.data_df = 0
             \/ R.actual_columns # None /\ "supplier_id" \notin R.actual_columns[1]

C12_Witness ==
    /\ Returned
    /\ Materialized
    /\ Len(target) = MaxRows
    /\ R.supplier_id = NaN
    /\ Reported
    /\ Lists("supplier_consistency")
    /\ Logged("distinct", "rows")
    /\ Listed("supplier_consistency").value = 0

\* C13: when the audit's row-count query fails, the audit returns status
\* 'error' with checks_passed = false and no checks list, no further query
\* is made, and run_sync returns 'dq_failed'.
C13_CountQueryFailure ==
    Logged("count", "raise")
    => /\ R.log[Len(R.log)] = <<"count", "raise">>
       /\ R.dq_result # None
       /\ R.dq_result.status = "error"
       /\ ~R.dq_result.checks_passed
       /\ R.dq_result.message = <<"Table not found: ", QueryError>>
       /\ "quality_checks" \notin DOMAIN R.dq_result
       /\ R.quality_checks = <<>>
       /\ Returned
       /\ R.result.status = "dq_failed"
       /\ R.result.dq = R.dq_result

C13_Witness ==
    /\ Returned
    /\ Logged("count", "raise")
    /\ Len(target) = MaxRows
    /\ R.result.status = "dq_failed"
    /\ R.dq_result.status = "error"

\* the name of the check that issues the given query
CheckOf(call) ==
    CASE call = "columns" -> "required_columns"
      [] call = "nulls" -> "null_values"
      [] call = "distinct" -> "supplier_consistency"

\* C14: once the row-count query has returned, a query failure inside
\* required_columns, null_values or supplier_consistency is caught by that
\* check and listed with passed = false and the error in its message; it
\* keeps no later check from running and the audit still returns its report;
\* a failure in null_values leaves supplier_consistency to run.
C14_CheckFailureIsolation ==
    /\ \A call \in {"columns", "nulls", "distinct"} :
          Logged(call, "raise")
          => /\ R.pc # "raised"
             /\ R.dq_result # None =>
                   /\ Reported
                   /\ Lists(CheckOf(call))
                   /\ ~Listed(CheckOf(call)).passed
                   /\ Listed(CheckOf(call)).message[2] = QueryError
    /\ (Logged("nulls", "raise") /\ R.dq_result # None)
          => (Lists("supplier_consistency") <=> "supplier_id" \in R.actual_columns[1])

\* the listed checks that passed, and those that did not
PassedChecks == SelectSeq(R.dq_result.quality_checks, LAMBDA c : c.passed)
FailedChecks == SelectSeq(R.dq_result.quality_checks, LAMBDA c : ~c.passed)

\* C15: in every audit report that carries a checks list, checks_passed is
\* the conjunction of the listed checks' passed flags, total_checks is the
\* length of the list, passed_checks is the number of checks with passed =
\* true, and passed_checks + failed_checks = total_checks.
C15_ReportArithmetic ==
    Reported
    => /\ R.dq_result.checks_passed = (FailedChecks = <<>>)
       /\ R.dq_result.total_checks = Len(R.dq_result.quality_checks)
       /\ R.dq_result.passed_checks = Len(PassedChecks)
       /\ R.dq_result.failed_checks = Len(FailedChecks)
       /\ R.dq_result.passed_checks + R.dq_result.failed_checks
            = R.dq_result.total_checks

C15_Witness ==
    /\ Reported
    /\ R.dq_result.total_checks = 4
    /\ R.dq_result.passed_checks = 2
    /\ R.dq_result.failed_checks = 2
    /\ ~R.dq_result.checks_passed

\* the required columns, as a set
RequiredSet == {required_columns[i] : i \in 1..Len(required_columns)}

\* C16: required_columns passes iff every required column is among the
\* actual columns, whatever other columns the table has; when 'Qty' is the
\* missing column the check has passed = false, its value is the actual
\* column list and its message names the missing columns ['Qty'].
C16_RequiredColumns ==
    Logged("columns", "rows")
    => /\ R.quality_checks[2].check = "required_columns"
       /\ R.quality_checks[2].passed = (RequiredSet \subseteq R.actual_columns[1])
       /\ R.quality_checks[2].value = R.actual_columns[1]
       /\ (RequiredSet \ R.actual_columns[1] = {"Qty"})
            => /\ ~R.quality_checks[2].passed
               /\ R.quality_checks[2].message = <<"Missing columns: ", <<"Qty">> >>
       /\ Reported => Listed("required_columns") = R.quality_checks[2]

C16_Witness ==
    /\ Reported
    /\ Logged("columns", "rows")
    /\ "Qty" \notin R.actual_columns[1]
    /\ "last_modified" \in R.actual_columns[1]
    /\ ~Listed("required_columns").passed
    /\ Listed("required_columns").value = R.actual_columns[1]

\* how many calls of the given kind the run has made
Calls(call) == Cardinality({k \in 1..Len(R.log) : R.log[k][1] = call})

\* C17: a run that ended in 'dq_failed' is neither rolled back nor retried:
\* the rows its materialization wrote are the rows of the target table, each
\* stage was run once, no step other than a new run_sync call follows, and
\* that call starts without a gate decision and decides from the table as it
\* stands when the gate reads it.
C17_DqFailedCommitted ==
    [][/\ (R.pc = "returned" /\ R.result.status = "dq_failed")
           => /\ Len(target) = R.data_df
              /\ \A i \in 1..Len(target) :
                    target[i] = TargetTableRow(R.supplier_id, R.last_modified)
              /\ \A call \in {"gate_documents", "parse_documents", "delete", "count"} :
                    Calls(call) = 1
              /\ target' = target
              /\ R' # R => /\ R'.pc = "gate_docs"
                           /\ R'.gate = None
                           /\ R'.log = <<>>
                           /\ R'.pre_target = target
       /\ (R.pc = "gate_target" /\ R' # R /\ R'.log[2][2] # "raise")
           => /\ R.gate = None
              /\ R'.gate.should_process =
                    (target = <<>> \/ R.file_last_updated > StoredWatermark(target))
      ]_vars

C17_Witness ==
    /\ Returned
    /\ R.result.status = "dq_failed"
    /\ Len(target) = MaxRows
    /\ R.pre_target # <<>>
    /\ target # R.pre_target

\* C18: two concurrent run_sync calls for the same config are not serialized
\* by any lock: while one caller is between its DELETE and its last INSERT
\* the other caller's DELETE and INSERT can execute, and all that is known of
\* the target table is that each of its rows was inserted by one of the two
\* calls.  (The state in which the table holds rows of both calls, more rows
\* than either frame and two different last_modified values, is
\* C18_Witness.)
C18_NotSerialized ==
    /\ \A p, q \in Runners :
          (p # q /\ run[p].pc = "parse_insert")
          => /\ run[q].pc = "parse_delete" => ENABLED ParseDelete(q)
             /\ run[q].pc = "parse_insert" => ENABLED ParseInsert(q)
    /\ Len(target) <= run["r1"].inserted + run["r2"].inserted
    /\ \A i \in 1..Len(target) :
          \E p \in Runners :
            /\ run[p].inserted > 0
            /\ target[i] = TargetTableRow(run[p].supplier_id, run[p].last_modified)

C18_Witness ==
    /\ \A p \in Runners :
          /\ run[p].parse_result # None
          /\ run[p].parse_result.status = "success"
          /\ Len(target) # run[p].data_df
    /\ \E i, j \in 1..Len(target) : target[i].last_modified # target[j].last_modified
    /\ \E i, j \in 1..Len(target) : target[i].supplier_id # target[j].supplier_id

\* C19: every RunResult has a gate; parse and dq are both null when the
\* status is 'skipped'; parse is set and dq is null when it is 'error'; both
\* are set when it is 'success' or 'dq_failed', and dq.checks_passed is true
\* exactly when it is 'success'.
C19_ResultShape ==
    R.result # None
    => /\ R.result.gate # None
       /\ R.result.gate = R.gate
       /\ R.result.status = "skipped"
            => (R.result.parse = None /\ R.result.dq = None)
       /\ R.result.status = "error"
            => (R.result.parse # None /\ R.result.dq = None)
       /\ R.result.status \in {"success", "dq_failed"}
            => /\ R.result.parse # None
               /\ R.result.dq # None
               /\ R.result.dq.checks_passed = (R.result.status = "success")

C19_Witness ==
    /\ R.result # None
    /\ R.result.status = "error"
    /\ R.result.gate.should_process
    /\ R.result.parse.status = "error"
    /\ R.result.dq = None
    /\ R.deletes = 1

\* the run is inside should_process_file
InGate == R.pc \in {"gate_docs", "gate_target"}

\* C20: the gate is free of side effects: should_process_file makes at most
\* two queries, one on the documents table and then at most one on the
\* target table, its steps leave both tables as they are, and it makes no
\* query on the target table when the documents lookup finds no row or
\* fails.
C20_GateSideEffectFree ==
    [][/\ Calls("gate_documents") <= 1
       /\ Calls("gate_target") <= 1
       /\ Calls("gate_target") = 1 => (Called(1, "gate_documents", "rows")
                                        /\ R.log[2][1] = "gate_target")
       /\ Len(R.log) >= 1 => R.log[1][1] = "gate_documents"
       /\ (Called(1, "gate_documents", "empty") \/ Called(1, "gate_documents", "raise"))
            => (Calls("gate_target") = 0 /\ Gated /\ ~R.gate.should_process)
       /\ (InGate /\ R' # R)
            => /\ target' = target
               /\ documents' = documents
               /\ target' = R'.pre_target
      ]_vars

C20_Witness ==
    /\ Gated
    /\ Called(2, "gate_target", "rows")
    /\ Calls("gate_documents") = 1
    /\ Calls("gate_target") = 1
    /\ Len(R.log) = 2
    /\ target = R.pre_target
    /\ Len(target) = MaxRows

-----------------------------------------------------------------------------
(* Properties of the configuration store *)

\* the id is stored
Stored(tbl, id) == \E row \in tbl.rows : row.id = id

\* C21: over any sequence of create, get and delete requests each config id
\* is stored at most once: a create with a stored id is answered 400
\* 'already exists' and leaves the stored record as it is; a delete of a
\* stored id removes it, and a get of an id that is not stored is answered
\* 404; a get or delete of an id that is not stored is answered 404 and
\* changes nothing; no request changes the fields of a stored config.
\* (Stated of requests none of whose statements failed for a transient
\* reason.)
C21_ConfigStore ==
    [][/\ \A a, b \in configs'.rows : a.id = b.id => a = b
       /\ \A row \in configs.rows :
             row \in configs'.rows \/ ~Stored(configs', row.id)
       /\ (http' # http /\ ~http'.transient)
           => /\ (http'.op = "create" /\ Stored(configs, http'.id))
                   => /\ http'.status = 400
                      /\ http'.detail =
                           <<"Configuration with id '{config.id}' already exists">>
                      /\ configs'.rows = configs.rows
              /\ (http'.op = "delete" /\ Stored(configs, http'.id))
                   => /\ http'.status = 200
                      /\ ~Stored(configs', http'.id)
              /\ (http'.op \in {"get", "delete"} /\ ~Stored(configs, http'.id))
                   => /\ http'.status = 404
                      /\ configs' = configs
      ]_vars

\* the run_sync call of the endpoint is in progress
Running == R.pc \notin {"idle", "returned", "raised"}

\* C22: POST /runs/run/{config_id} with an id that is not in the configs
\* store is answered 404 'not found' and does not invoke run_sync, so no
\* documents or target table is read or written; with a stored id it
\* invokes run_sync once, with the fields of the stored config.  (Stated of
\* requests whose lookup did not fail for a transient reason.)
C22_RunByConfigId ==
    [][/\ (http' # http /\ http'.op = "run" /\ http.status # 0 /\ ~http'.transient
             /\ ~Stored(configs, http'.id))
           => /\ http'.status = 404
              /\ http'.detail = <<"Configuration '{config_id}' not found">>
              /\ UNCHANGED <<documents, target, run>>
              /\ ~Running'
       /\ (http' # http /\ http'.op = "run" /\ http.status # 0 /\ ~http'.transient
             /\ Stored(configs, http'.id))
           => /\ http'.status = 0
              /\ http'.body \in configs.rows
              /\ http'.body.id = http'.id
              /\ R'.pc = "gate_docs"
              /\ R'.log = <<>>
       /\ (R'.pc = "gate_docs" /\ R' # R)
           => /\ ~Running
              /\ http.status # 0 \/ http.op = "none"
              /\ http'.status = 0
       /\ Running => (http.op = "run" /\ http.status = 0)
      ]_vars

\* the call of thread t has returned and clear_cache has not run since it
\* started
Undisturbed(t) == W(t).pc = "done" /\ ~W(t).cleared

\* C23: once a get_warehouse_id(force_auto_select=True) call has obtained an
\* id, every call that starts while that id is cached and returns before
\* clear_cache runs returns that id and does not call the selection tool;
\* concurrent callers that race on an empty cache all return the one id
\* that was selected; the cache keeps an id until clear_cache sets it to
\* None, and the tool is only called on an empty cache.
C23_WarehouseCache ==
    /\ \A t \in WmThreads :
         (Undisturbed(t) /\ W(t).start_cached # None)
           => (W(t).ret = W(t).start_cached /\ ~W(t).called)
    /\ \A t, u \in WmThreads :
         (Undisturbed(t) /\ Undisturbed(u) /\ W(t).ret # None /\ W(u).ret # None)
           => /\ W(t).ret = W(u).ret
              /\ ~(t # u /\ W(t).selected # None /\ W(u).selected # None)
    /\ \A t \in WmThreads :
         W(t).pc = "select" => (warehouse.cached = None /\ warehouse.lock = Some(t))

\* two callers raced on the empty cache, one selected, both returned its id
C23_Witness ==
    /\ Undisturbed("t1") /\ Undisturbed("t2")
    /\ W("t1").start_cached = None /\ W("t2").start_cached = None
    /\ W("t1").selected # None /\ ~W("t2").called
    /\ W("t1").ret # None
    /\ W("t2").ret = W("t1").ret

\* the place of a call in the source order of run_sync's queries
CallOrder(call) ==
    CASE call = "gate_documents" -> 1
      [] call = "gate_target" -> 2
      [] call = "parse_documents" -> 3
      [] call = "read_excel" -> 4
      [] call = "delete" -> 5
      [] call = "insert" -> 6
      [] call = "count" -> 7
      [] call = "columns" -> 8
      [] call = "nulls" -> 9
      [] call = "distinct" -> 10

\* the stage of run_sync that makes the given call: 1 the gate, 2 the
\* materialization, 3 the audit
StageOf(call) ==
    IF CallOrder(call) <= 2 THEN 1 ELSE IF CallOrder(call) <= 6 THEN 2 ELSE 3

\* C24: within one run_sync call the stages run in the order gate,
\* materialize, audit, each at most once: the calls follow the source order,
\* none but the INSERT of the next row and the NULL count of the next column
\* is made twice, so at most one DELETE is issued, and a call that raised is
\* never made again; materialization is entered only after a gate decision
\* with should_process = true and the audit only after a materialization
\* that returned 'success'.
C24_StageOrder ==
    /\ \A k \in 1..(Len(R.log) - 1) :
         \/ CallOrder(R.log[k][1]) < CallOrder(R.log[k + 1][1])
         \/ /\ R.log[k][1] = R.log[k + 1][1]
            /\ R.log[k][1] \in {"insert", "nulls"}
            /\ R.log[k][2] # "raise"
    /\ R.log # <<>> =>
         /\ StageOf(R.log[Len(R.log)][1]) >= 2 => (R.gate # None /\ R.gate.should_process)
         /\ StageOf(R.log[Len(R.log)][1]) = 3 => Materialized
    /\ R.pc \in {"parse_fetch", "parse_delete", "parse_insert"}
         => (R.gate # None /\ R.gate.should_process /\ R.parse_result = None)
    /\ R.pc \in {"dq_count", "dq_columns", "dq_nulls", "dq_distinct"}
         => (Materialized /\ R.dq_result = None)
    /\ R.deletes <= 1
    /\ Returned =>
         /\ (R.parse_result # None) <=> R.gate.should_process
         /\ (R.dq_result # None) <=> Materialized

\* a run went through all three stages after one query of its audit had failed
C24_Witness ==
    /\ Returned
    /\ R.result.status = "dq_failed"
    /\ Calls("delete") = 1
    /\ Calls("insert") = 2
    /\ Logged("nulls", "raise")
    /\ Logged("distinct", "rows")

\* the names of the listed checks, in the order of the list
CheckNames ==
    [i \in 1..Len(R.dq_result.quality_checks) |-> R.dq_result.quality_checks[i].check]

\* the required columns the table has, in the order they are required
PresentRequired ==
    IF R.actual_columns = None THEN <<>>
    ELSE SelectSeq(required_columns, LAMBDA c : c \in R.actual_columns[1])

\* the order and the presence of the checks in a report
CheckListOrder ==
    /\ CheckNames =
         <<"row_count", "required_columns">>
           \o (IF R.dq_result.row_count > 0 THEN <<"null_values">> ELSE <<>>)
           \o (IF /\ R.dq_result.row_count > 0
                  /\ R.actual_columns # None
                  /\ "supplier_id" \in R.actual_columns[1]
               THEN <<"supplier_consistency">> ELSE <<>>)
    /\ R.dq_result.row_count = Len(target)
    /\ Listed("row_count").passed <=> R.dq_result.row_count > 0

\* the NULL counts null_values reports are those of the present required
\* columns, and the check passes iff all of them are 0
NullValuesCounted ==
    /\ Len(Listed("null_values").value) = Len(PresentRequired)
    /\ \A i \in 1..Len(PresentRequired) :
         Listed("null_values").value[i]
           = <<PresentRequired[i], NullCount(target, PresentRequired[i])>>
    /\ Listed("null_values").passed
         <=> \A i \in 1..Len(PresentRequired) : NullCount(target, PresentRequired[i]) = 0

\* supplier_consistency reports the distinct count and passes iff it is 1
SuppliersCounted ==
    /\ Listed("supplier_consistency").value = DistinctSuppliers(target)
    /\ Listed("supplier_consistency").passed <=> DistinctSuppliers(target) = 1

\* C25 as stated: when the row-count query succeeds the check list is in the
\* order row_count, required_columns, null_values, supplier_consistency;
\* row_count passes iff row_count > 0; null_values is present iff row_count >
\* 0, counts NULLs for the required columns that are present and passes iff
\* all those counts are 0; supplier_consistency is present iff row_count > 0
\* and supplier_id is an actual column, and passes iff the distinct count is 1.
C25_CheckList ==
    (Returned /\ Reported)
    => /\ CheckListOrder
       /\ Lists("null_values") => NullValuesCounted
       /\ Lists("supplier_consistency") => SuppliersCounted

\* C25, amended: the same for every report the audit returns, with the
\* outcome of null_values and supplier_consistency tied to the counts only
\* when their queries returned; a check whose query raised is listed with
\* passed = false, null_values with an empty value and supplier_consistency
\* with the value 0, whatever the table holds.
C25_CheckListAmended ==
    (Returned /\ Reported)
    => /\ CheckListOrder
       /\ Lists("null_values") =>
            IF Logged("nulls", "raise")
            THEN ~Listed("null_values").passed /\ Listed("null_values").value = <<>>
            ELSE NullValuesCounted
       /\ Lists("supplier_consistency") =>
            IF Logged("distinct", "raise")
            THEN ~Listed("supplier_consistency").passed
                   /\ Listed("supplier_consistency").value = 0
            ELSE SuppliersCounted

\* a report of four checks on a table without the Qty column whose rows have
\* no supplier: three NULL counts, one of them positive
C25_Witness ==
    /\ Returned /\ Reported
    /\ Len(R.dq_result.quality_checks) = 4
    /\ ~Logged("nulls", "raise") /\ ~Logged("distinct", "raise")
    /\ Len(Listed("null_values").value) = 3
    /\ ~Listed("null_values").passed
    /\ Listed("supplier_consistency").value = 0

\* C26: whenever parse_excel_to_delta returns 'error', for whatever cause,
\* the target table holds exactly the rows it held before the call.
C26_ErrorLeavesTarget ==
    (R.parse_result # None /\ R.parse_result.status = "error")
    => target = R.pre_target

\* the second of two calls in a row
R2 == run["r2"]

\* C27: after a run_sync call whose materialization succeeded, a call that
\* follows at once, with the documents table unchanged and none of its
\* queries failing, returns 'skipped', also when the materialized frame was
\* empty.
C27_SecondRunSkipped ==
    (/\ R.pc = "returned"
     /\ R.result.status \in {"success", "dq_failed"}
     /\ R2.pc = "returned"
     /\ \A k \in 1..Len(R2.log) : R2.log[k][2] # "raise")
    => R2.result.status = "skipped"

\* C28: in every run whose materialization inserts rows, the last_modified
\* written onto the target rows is the file_last_updated the gate reported in
\* that run, however many versions of the file the documents table holds.
C28_SameVersion ==
    \A p \in Runners :
      (run[p].inserted > 0 /\ run[p].gate # None)
        => /\ Str(run[p].last_modified) = run[p].gate.file_last_updated
           /\ \A i \in 1..Len(target) :
                Str(target[i].last_modified) = run[p].gate.file_last_updated

\* C29: the largest last_modified stored in a non-empty target table never
\* decreases: a run that has deleted the rows of a non-empty table writes no
\* row with an older watermark than the rows it deleted.
C29_WatermarkMonotone ==
    (R.deletes > 0 /\ R.pre_target # <<>> /\ target # <<>>)
    => StoredWatermark(target) >= StoredWatermark(R.pre_target)

\* the connections opened and not closed
OpenConnections == (1..lakebase.opened) \ lakebase.closed

\* connections are only opened under the lock, one at a time, each after the
\* one it replaces has been closed
OneConnectionPerRefresh ==
    /\ Cardinality(OpenConnections) <= 1
    /\ \A t \in LbThreads :
         L(t).pc \in {"recheck", "close", "connect", "stamp"} => lakebase.lock = Some(t)

\* a query that found a connection younger than 59 minutes opened none
YoungConnectionReused ==
    \A t \in LbThreads : L(t).start_conn # None => ~L(t).created

\* C30: with several threads calling Lakebase.query, at most one connection
\* is created per refresh, no thread executes its SQL on a connection that
\* another thread has closed while refreshing, and a query that finds the
\* connection younger than 59 minutes reuses it without creating one.
C30_ConnectionRefresh ==
    /\ OneConnectionPerRefresh
    /\ YoungConnectionReused
    /\ \A t \in LbThreads : ~L(t).on_closed

====
